---- MODULE Spec2Model ----
(***************************************************************************)
(* Model of the khotba-transcriber front end:                              *)
(*   - App.jsx: the step machine, the stage vector (processingSteps) and   *)
(*     the asynchronous pipeline handleTranscribeAndTranslate;             *)
(*   - ResultsPanel: the two text lanes, the edit session (enterEdit,      *)
(*     cancelEdit, saveEdits) and the cascade merge of a save response.    *)
(* Every await of the source is a point where other handlers may run, so   *)
(* each asynchronous handler is cut into one action per await.             *)
(***************************************************************************)
EXTENDS Integers, Sequences, FiniteSets, TLC

\* ------------------------------------------------------------------ bounds
MaxRuns == 2          \* invocations of the pipeline that may be in flight together
MaxSegs == 2          \* segments of a segmented transcript
MaxSaves == 2         \* edit-save requests and revert timers outstanding together
MaxCalls == 2         \* generate-article calls issued by one mounted panel

\* --------------------------------------------------------------- constants
NoDuration == -1      \* duration: null
NoCost == -1          \* cost: null

STEP_URL == "url"
STEP_TIME == "time"
STEP_PROCESSING == "processing"
STEP_RESULTS == "results"
STEPS == {STEP_URL, STEP_TIME, STEP_PROCESSING, STEP_RESULTS}

PIPELINE_STEPS == <<"extract", "whisper", "translate">>
StageIdx == 1..Len(PIPELINE_STEPS)

Runs == 1..MaxRuns
\* Date.now() differences: a stage duration is some number of milliseconds
Durations == {1200}

MAX_SEGMENT == 30 * 60
\* the end of the window proposed when a source is loaded
DefaultWindow == 300

\* Math.min
Min(a, b) == IF a <= b THEN a ELSE b
\* Math.max
Max(a, b) == IF a >= b THEN a ELSE b

\* videoInfo of a loaded source: its duration in seconds
VideoInfos == [duration : {0, 2000}]

\* parseTime of what the user typed into a time field, in seconds; a text
\* that does not parse (null) takes the branch of a negative value
ParsedTimes == {-30, 0, 100, 1900, 2500}

\* getValueFromClientX: the positions of the track the pointer is put on
SliderValues(max) == {v \in {0, 100, 1900, 2000} : v <= max}

\* Math.abs
Abs(x) == IF x < 0 THEN -x ELSE x

\* null / undefined of the source, one marker per type
NoError == "<null>"
Undefined == "<undefined>"
NoId == "<undefined>"
NoInfo == [null |-> TRUE]
NoText == "<undefined>"
NoArticle == "<null>"
NoResults == [null |-> TRUE]
NoCosts == [null |-> TRUE]
NoData == [null |-> TRUE]

\* --------------------------------------------------------------- variables
VARIABLES
    step,              \* App: step
    videoInfo,         \* App: videoInfo (NoInfo or a record with the duration)
    range,             \* App: range, the selected window {start, end}
    includeTimestamps, \* App: includeTimestamps
    processingSteps,   \* App: processingSteps, the stage vector
    processingError,   \* App: processingError
    results,           \* App: results
    resultsFrom,       \* who wrote results: "none", "history" or the run
    runPc,             \* per invocation of handleTranscribeAndTranslate: its await
    runData,           \* per invocation: transcribeData
    runTs,             \* per invocation: includeTimestamps of its closure
    delivered          \* the response the last failing await received

appVars == <<step, videoInfo, range, includeTimestamps,
             processingSteps, processingError, results, resultsFrom,
             runPc, runData, runTs, delivered>>

\* ResultsPanel state; it exists while the panel is mounted
VARIABLES
    arabicSegs,        \* ResultsPanel: arabicSegs
    frenchSegs,        \* ResultsPanel: frenchSegs
    arabicText,        \* ResultsPanel: arabicText
    frenchText,        \* ResultsPanel: frenchText
    editMode,          \* ResultsPanel: editMode (NoLane, "arabic", "french")
    cancelSnapshot,    \* ResultsPanel: cancelSnapshot
    saveStatus,        \* ResultsPanel: saveStatus
    saves,             \* PATCH requests of saveEdits awaiting their response
    timers,            \* pending setTimeout callbacks of saveEdits, per lane
    atEnter            \* the four lane fields as they were when enterEdit ran

editVars == <<arabicSegs, frenchSegs, arabicText, frenchText, editMode,
              cancelSnapshot, saveStatus, saves, timers, atEnter>>

\* ResultsPanel state of the article section and of the cost breakdown
VARIABLES
    articleMarkdown,   \* ResultsPanel: articleMarkdown
    articleState,      \* ResultsPanel: articleState ('idle', 'loading', 'error')
    articleError,      \* ResultsPanel: articleError
    costs,             \* ResultsPanel: costs, the cost record
    calls              \* generate-article calls issued since the panel mounted

articleVars == <<articleMarkdown, articleState, articleError, costs, calls>>

\* the record that the useState initialisers of the mounted panel read
VARIABLES
    initId             \* results.analysisId as it was when the panel mounted

panelVars == <<editVars, articleVars, initId>>

\* the output of a step
VARIABLES
    sent               \* the request issued by the step just taken: record and body

vars == <<appVars, panelVars, sent>>

\* ----------------------------------------------------------------- values
Lanes == {"arabic", "french"}
NoLane == "<null>"
NoSnapshot == [null |-> TRUE]
NoRequest == [null |-> TRUE]
Typed == {"x"}                   \* what the user types into a textarea

\* a segment list of MaxSegs entries, every text equal to t
SegsOf(t) == [i \in 1..MaxSegs |-> [start |-> (i - 1) * 5, text |-> t]]

SomeCosts == [whisper_cost_usd |-> 2, translation_cost_usd |-> 1,
              article_cost_usd |-> 0, total_cost_usd |-> 3]

\* a cost record whose fields are all absent
AbsentCosts == [whisper_cost_usd |-> NoCost, translation_cost_usd |-> NoCost,
                article_cost_usd |-> NoCost, total_cost_usd |-> NoCost]

\* bodies of a successful /api/transcribe response
TranscribePayloads ==
    { [segments |-> SegsOf("a"), full_text |-> "a", whisper_cost_usd |-> 2],
      [segments |-> <<>>, full_text |-> "b", whisper_cost_usd |-> NoCost] }

\* bodies of a successful /api/translate response
TranslatePayloads ==
    { [translated_segments |-> SegsOf("b"), french_text |-> "b",
       analysis_id |-> "id1", costs |-> SomeCosts],
      [translated_segments |-> <<>>, french_text |-> "a",
       analysis_id |-> "id2", costs |-> NoCosts],
      [translated_segments |-> <<>>, french_text |-> NoText,
       analysis_id |-> NoId, costs |-> AbsentCosts] }

\* records returned by GET /api/history/{id}
HistoryItems ==
    { [arabic_segments |-> SegsOf("a"), arabic_text |-> "a",
       french_segments |-> SegsOf("b"), french_text |-> "b",
       article_markdown |-> NoArticle, id |-> "h1", costs |-> SomeCosts,
       start_seconds |-> 0, end_seconds |-> 300],
      [arabic_segments |-> <<>>, arabic_text |-> "b",
       french_segments |-> <<>>, french_text |-> "a",
       article_markdown |-> "art", id |-> "h2", costs |-> NoCosts,
       start_seconds |-> 0, end_seconds |-> 300] }

\* detail field of an error body: absent, empty or a message
Details == {Undefined, "", "quota exceeded"}

\* how an awaited fetch of the pipeline can end badly
\*   network   : fetch rejects (TypeError)
\*   http      : response with ok = false and a JSON body
\*   http_raw  : response with ok = false whose body is not JSON
\*   body      : response with ok = true whose body is not JSON
NetworkErrorMessage == "Failed to fetch"
JsonErrorMessage == "Unexpected token < in JSON"
GenericMessage == [transcribe |-> "Transcription failed", translate |-> "Translation failed"]
Failures ==
    [kind : {"network", "http_raw"}, detail : {Undefined}]
      \cup [kind : {"http"}, detail : Details]
NoDelivery == [call |-> "none", kind |-> "none", detail |-> Undefined]
NoWriter == [kind |-> "none", run |-> 0]

\* JS truthiness of a string, null or undefined value
Truthy(v) == v \notin {Undefined, "<null>", ""}

\* x || y on such values
OrElse(x, y) == IF Truthy(x) THEN x ELSE y

\* err.message shown after a failed await of the pipeline
FailureMessage(call, f) ==
    CASE f.kind = "network" -> NetworkErrorMessage
      [] f.kind = "http" -> OrElse(f.detail, GenericMessage[call])
      [] OTHER -> JsonErrorMessage

\* ------------------------------------------------------------ stage vector
PendingSteps ==
    [i \in StageIdx |-> [id |-> PIPELINE_STEPS[i], status |-> "pending",
                         duration |-> NoDuration, cost |-> NoCost]]

Idx(id) == CHOOSE i \in StageIdx : PIPELINE_STEPS[i] = id

\* prev.map(s => s.id === id ? { ...s, status: 'active' } : s)
MarkActive(prev, id) ==
    [i \in StageIdx |-> IF prev[i].id = id THEN [prev[i] EXCEPT !.status = "active"]
                        ELSE prev[i]]

\* { ...s, status: 'done', duration: d } for stage id, the others untouched
MarkDoneKeepCost(prev, id, d) ==
    [i \in StageIdx |-> IF prev[i].id = id
                        THEN [prev[i] EXCEPT !.status = "done", !.duration = d]
                        ELSE prev[i]]

\* { ...s, status: 'done', duration: d, cost: c } for stage id
MarkDone(prev, id, d, c) ==
    [i \in StageIdx |-> IF prev[i].id = id
                        THEN [prev[i] EXCEPT !.status = "done", !.duration = d, !.cost = c]
                        ELSE prev[i]]

ActiveStages == {i \in StageIdx : processingSteps[i].status = "active"}
AllDone == \A i \in StageIdx : processingSteps[i].status = "done"

\* ------------------------------------------------------------ ResultsPanel
\* the panel is rendered by: step === STEPS.RESULTS && results && <ResultsPanel/>
Mounted == step = STEP_RESULTS /\ results # NoResults

LaneFields == [arabicSegs |-> arabicSegs, frenchSegs |-> frenchSegs,
               arabicText |-> arabicText, frenchText |-> frenchText]

\* the useState initialisers of ResultsPanel, run when the panel mounts
PanelMount(res) ==
    /\ arabicSegs' = res.arabicSegments
    /\ frenchSegs' = res.frenchSegments
    /\ arabicText' = OrElse(res.arabicText, "")
    /\ frenchText' = OrElse(res.frenchText, "")
    /\ editMode' = NoLane
    /\ cancelSnapshot' = NoSnapshot
    /\ saveStatus' = [l \in Lanes |-> "idle"]
    /\ saves' = [l \in Lanes |-> 0]
    /\ timers' = [l \in Lanes |-> 0]
    /\ atEnter' = NoSnapshot
    /\ articleMarkdown' = OrElse(res.articleMarkdown, NoArticle)
    /\ articleState' = "idle"
    /\ articleError' = ""
    /\ costs' = res.costs
    /\ calls' = 0
    /\ initId' = res.analysisId

\* an unmounted panel has no state; its pending callbacks have no effect
PanelGone ==
    /\ arabicSegs' = <<>>
    /\ frenchSegs' = <<>>
    /\ arabicText' = ""
    /\ frenchText' = ""
    /\ editMode' = NoLane
    /\ cancelSnapshot' = NoSnapshot
    /\ saveStatus' = [l \in Lanes |-> "idle"]
    /\ saves' = [l \in Lanes |-> 0]
    /\ timers' = [l \in Lanes |-> 0]
    /\ atEnter' = NoSnapshot
    /\ articleMarkdown' = NoArticle
    /\ articleState' = "idle"
    /\ articleError' = ""
    /\ costs' = NoCosts
    /\ calls' = 0
    /\ initId' = NoId

\* what a re-render of App does to the panel once step and results are set
PanelFollows ==
    IF ~(step' = STEP_RESULTS /\ results' # NoResults) THEN PanelGone
    ELSE IF ~Mounted THEN PanelMount(results')
    ELSE UNCHANGED panelVars

\* ------------------------------------------------------------------- Init
Init ==
    /\ step = STEP_URL
    /\ videoInfo = NoInfo
    /\ range = [start |-> 0, end |-> 0]
    /\ includeTimestamps = TRUE
    /\ processingSteps = PendingSteps
    /\ processingError = NoError
    /\ results = NoResults
    /\ resultsFrom = NoWriter
    /\ runPc = [r \in Runs |-> "idle"]
    /\ runData = [r \in Runs |-> NoData]
    /\ runTs = [r \in Runs |-> TRUE]
    /\ delivered = NoDelivery
    /\ arabicSegs = <<>>
    /\ frenchSegs = <<>>
    /\ arabicText = ""
    /\ frenchText = ""
    /\ editMode = NoLane
    /\ cancelSnapshot = NoSnapshot
    /\ saveStatus = [l \in Lanes |-> "idle"]
    /\ saves = [l \in Lanes |-> 0]
    /\ timers = [l \in Lanes |-> 0]
    /\ atEnter = NoSnapshot
    /\ articleMarkdown = NoArticle
    /\ articleState = "idle"
    /\ articleError = ""
    /\ costs = NoCosts
    /\ calls = 0
    /\ initId = NoId
    /\ sent = NoRequest

\* ------------------------------------------------------------ App actions
pipelineVars == <<processingSteps, processingError, runPc, runData, runTs, delivered>>

InFlight(r) == runPc[r] \in {"transcribe", "parse", "translate"}

\* onSuccess of UrlInput / UploadInput (App.jsx), reached by a successful
\* lookup submitted from the URL step
OnSuccess(info) ==
    /\ sent' = NoRequest
    /\ step = STEP_URL
    /\ videoInfo' = info
    /\ range' = [start |-> 0, end |-> Min(info.duration, DefaultWindow)]
    /\ step' = STEP_TIME
    /\ UNCHANGED <<includeTimestamps, results, resultsFrom, pipelineVars>>
    /\ PanelFollows

\* a source of any of the durations is loaded
SourceLoaded == \E info \in VideoInfos : OnSuccess(info)

\* TimeRangePicker onBack
Back ==
    /\ sent' = NoRequest
    /\ step = STEP_TIME /\ videoInfo # NoInfo
    /\ step' = STEP_URL
    /\ UNCHANGED <<videoInfo, range, includeTimestamps, results,
                   resultsFrom, pipelineVars, panelVars>>

\* TimeRangePicker timestamps toggle
ToggleTimestamps ==
    /\ sent' = NoRequest
    /\ step = STEP_TIME /\ videoInfo # NoInfo
    /\ includeTimestamps' = ~includeTimestamps
    /\ UNCHANGED <<step, videoInfo, range, results,
                   resultsFrom, pipelineVars, panelVars>>

\* TimeRangePicker: canTranscribe, which enables the Transcribe button
CanTranscribe ==
    /\ range.end > range.start
    /\ ~(range.end - range.start > MAX_SEGMENT)

\* handleStartBlur with parseTime(startInput) = val
HandleStartBlur(val) ==
    /\ sent' = NoRequest
    /\ step = STEP_TIME /\ videoInfo # NoInfo
    /\ IF val < 0 THEN UNCHANGED range
       ELSE range' = [range EXCEPT
                        !.start = Min(Min(val, range.end - 1), videoInfo.duration - 1)]
    /\ UNCHANGED <<step, videoInfo, includeTimestamps, results,
                   resultsFrom, pipelineVars, panelVars>>

\* handleEndBlur with parseTime(endInput) = val
HandleEndBlur(val) ==
    /\ sent' = NoRequest
    /\ step = STEP_TIME /\ videoInfo # NoInfo
    /\ IF val <= 0 THEN UNCHANGED range
       ELSE LET newEnd == Min(val, videoInfo.duration) IN
            IF newEnd <= range.start THEN UNCHANGED range
            ELSE range' = [range EXCEPT !.end = newEnd]
    /\ UNCHANGED <<step, videoInfo, includeTimestamps, results,
                   resultsFrom, pipelineVars, panelVars>>

\* RangeSlider: a move of the start handle to val, passed to handleSliderChange
HandleStartDrag(val) ==
    /\ sent' = NoRequest
    /\ step = STEP_TIME /\ videoInfo # NoInfo
    /\ range' = [start |-> Max(0, Min(val, range.end - 1)), end |-> range.end]
    /\ UNCHANGED <<step, videoInfo, includeTimestamps, results,
                   resultsFrom, pipelineVars, panelVars>>

\* RangeSlider: a move of the end handle to val, passed to handleSliderChange
HandleEndDrag(val) ==
    /\ sent' = NoRequest
    /\ step = STEP_TIME /\ videoInfo # NoInfo
    /\ range' = [start |-> range.start,
                 end |-> Min(videoInfo.duration, Max(val, range.start + 1))]
    /\ UNCHANGED <<step, videoInfo, includeTimestamps, results,
                   resultsFrom, pipelineVars, panelVars>>

\* RangeSlider: a click on the track at val moves the nearest handle
HandleTrackClick(val) ==
    /\ sent' = NoRequest
    /\ step = STEP_TIME /\ videoInfo # NoInfo
    /\ IF Abs(val - range.start) <= Abs(val - range.end)
       THEN range' = [start |-> Max(0, Min(val, range.end - 1)), end |-> range.end]
       ELSE range' = [start |-> range.start,
                      end |-> Min(videoInfo.duration, Max(val, range.start + 1))]
    /\ UNCHANGED <<step, videoInfo, includeTimestamps, results,
                   resultsFrom, pipelineVars, panelVars>>

RangeNext ==
    \/ \E val \in ParsedTimes : HandleStartBlur(val) \/ HandleEndBlur(val)
    \/ step = STEP_TIME /\ videoInfo # NoInfo
         /\ \E val \in SliderValues(videoInfo.duration) :
               HandleStartDrag(val) \/ HandleEndDrag(val) \/ HandleTrackClick(val)

\* the body of the /api/transcribe request, without the source locator
TranscribeBody ==
    [start_seconds |-> range.start, end_seconds |-> range.end,
     include_timestamps |-> includeTimestamps]

\* an invocation that would resume on the stage vector and the error it finds
StartRun_KeepsStages ==
    /\ sent' = [id |-> NoId, body |-> TranscribeBody]
    /\ step = STEP_TIME /\ videoInfo # NoInfo
    /\ CanTranscribe
    /\ \E r \in Runs :
         /\ ~InFlight(r)
         /\ \A q \in Runs : q < r => InFlight(q)
         /\ runPc' = [runPc EXCEPT ![r] = "transcribe"]
         /\ runData' = [runData EXCEPT ![r] = NoData]
         /\ runTs' = [runTs EXCEPT ![r] = includeTimestamps]
    /\ step' = STEP_PROCESSING
    /\ processingSteps' = MarkActive(processingSteps, "extract")
    /\ processingError' = NoError
    /\ results' = NoResults
    /\ resultsFrom' = NoWriter
    /\ delivered' = NoDelivery
    /\ UNCHANGED <<videoInfo, range, includeTimestamps>>
    /\ PanelFollows

\* a Transcribe button that would not be disabled by canTranscribe
StartRun_AnyWindow ==
    /\ sent' = [id |-> NoId, body |-> TranscribeBody]
    /\ step = STEP_TIME /\ videoInfo # NoInfo
    /\ \E r \in Runs :
         /\ ~InFlight(r)
         /\ \A q \in Runs : q < r => InFlight(q)
         /\ runPc' = [runPc EXCEPT ![r] = "transcribe"]
         /\ runData' = [runData EXCEPT ![r] = NoData]
         /\ runTs' = [runTs EXCEPT ![r] = includeTimestamps]
    /\ step' = STEP_PROCESSING
    /\ processingSteps' = MarkActive(PendingSteps, "extract")
    /\ processingError' = NoError
    /\ results' = NoResults
    /\ resultsFrom' = NoWriter
    /\ delivered' = NoDelivery
    /\ UNCHANGED <<videoInfo, range, includeTimestamps>>
    /\ PanelFollows

\* handleTranscribeAndTranslate up to its first await
StartRun ==
    /\ sent' = [id |-> NoId, body |-> TranscribeBody]
    /\ step = STEP_TIME /\ videoInfo # NoInfo
    /\ CanTranscribe
    /\ \E r \in Runs :
         /\ ~InFlight(r)
         /\ \A q \in Runs : q < r => InFlight(q)
         /\ runPc' = [runPc EXCEPT ![r] = "transcribe"]
         /\ runData' = [runData EXCEPT ![r] = NoData]
         /\ runTs' = [runTs EXCEPT ![r] = includeTimestamps]
    /\ step' = STEP_PROCESSING
    /\ processingSteps' = MarkActive(PendingSteps, "extract")
    /\ processingError' = NoError
    /\ results' = NoResults
    /\ resultsFrom' = NoWriter
    /\ delivered' = NoDelivery
    /\ UNCHANGED <<videoInfo, range, includeTimestamps>>
    /\ PanelFollows

\* a catch block that would also surface the transcript obtained so far
Abort_SurfacesTranscript(r, call, f) ==
    /\ sent' = NoRequest
    /\ processingError' = FailureMessage(call, f)
    /\ delivered' = [call |-> call, kind |-> f.kind, detail |-> f.detail]
    /\ runPc' = [runPc EXCEPT ![r] = "aborted"]
    /\ runData' = [runData EXCEPT ![r] = NoData]
    /\ runTs' = [runTs EXCEPT ![r] = TRUE]
    /\ results' = [arabicSegments |-> IF runData[r] = NoData THEN <<>> ELSE runData[r].segments,
                   arabicText |-> IF runData[r] = NoData THEN NoText ELSE runData[r].full_text,
                   frenchSegments |-> <<>>,
                   frenchText |-> NoText,
                   articleMarkdown |-> NoArticle,
                   analysisId |-> NoId,
                   includeTimestamps |-> runTs[r],
                   costs |-> NoCosts]
    /\ resultsFrom' = [kind |-> "run", run |-> r]
    /\ UNCHANGED <<step, videoInfo, range, includeTimestamps, processingSteps>>
    /\ PanelFollows

\* the catch block: setProcessingError(err.message); the invocation is over
\* and its closure (transcribeData, includeTimestamps) is dropped
Abort(r, call, f) ==
    /\ sent' = NoRequest
    /\ processingError' = FailureMessage(call, f)
    /\ delivered' = [call |-> call, kind |-> f.kind, detail |-> f.detail]
    /\ runPc' = [runPc EXCEPT ![r] = "aborted"]
    /\ runData' = [runData EXCEPT ![r] = NoData]
    /\ runTs' = [runTs EXCEPT ![r] = TRUE]
    /\ UNCHANGED <<step, videoInfo, range, includeTimestamps,
                   processingSteps, results, resultsFrom, panelVars>>

\* await fetch(/api/transcribe) rejects or answers with ok = false
TranscribeFail(r) ==
    /\ runPc[r] = "transcribe"
    /\ \E f \in Failures : Abort(r, "transcribe", f)

\* await fetch(/api/transcribe) answers with ok = true
TranscribeOk(r) ==
    /\ sent' = NoRequest
    /\ runPc[r] = "transcribe"
    /\ \E d \in Durations :
         processingSteps' = MarkActive(MarkDoneKeepCost(processingSteps, "extract", d), "whisper")
    /\ runPc' = [runPc EXCEPT ![r] = "parse"]
    /\ UNCHANGED <<step, videoInfo, range, includeTimestamps,
                   processingError, results, resultsFrom, runData, runTs, delivered, panelVars>>

\* await transcribeRes.json() throws
ParseFail(r) ==
    /\ runPc[r] = "parse"
    /\ Abort(r, "transcribe", [kind |-> "body", detail |-> Undefined])

\* await transcribeRes.json() returns; the translate request is issued
ParseOk(r) ==
    /\ sent' = NoRequest
    /\ runPc[r] = "parse"
    /\ \E data \in TranscribePayloads, d \in Durations :
         /\ processingSteps' =
              MarkActive(MarkDone(processingSteps, "whisper", d, data.whisper_cost_usd),
                         "translate")
         /\ runData' = [runData EXCEPT ![r] = data]
    /\ runPc' = [runPc EXCEPT ![r] = "translate"]
    /\ UNCHANGED <<step, videoInfo, range, includeTimestamps,
                   processingError, results, resultsFrom, runTs, delivered, panelVars>>

\* await fetch(/api/translate) rejects, answers with ok = false, or its body
\* cannot be parsed
TranslateFail(r) ==
    /\ runPc[r] = "translate"
    /\ \E f \in Failures \cup {[kind |-> "body", detail |-> Undefined]} :
         Abort(r, "translate", f)

\* translateData.costs?.translation_cost_usd ?? null
TranslationCost(data) ==
    IF data.costs = NoCosts THEN NoCost ELSE data.costs.translation_cost_usd

\* the object passed to setResults when the run completes
RunResults(r, data) ==
    [arabicSegments |-> runData[r].segments,
     arabicText |-> runData[r].full_text,
     frenchSegments |-> data.translated_segments,
     frenchText |-> data.french_text,
     articleMarkdown |-> NoArticle,
     analysisId |-> data.analysis_id,
     includeTimestamps |-> runTs[r],
     costs |-> data.costs]

\* the translate response is ok and parsed: stage done, results set, step RESULTS
TranslateOk(r) ==
    /\ sent' = NoRequest
    /\ runPc[r] = "translate"
    /\ \E data \in TranslatePayloads, d \in Durations :
         /\ processingSteps' = MarkDone(processingSteps, "translate", d, TranslationCost(data))
         /\ results' = RunResults(r, data)
    /\ resultsFrom' = [kind |-> "run", run |-> r]
    /\ step' = STEP_RESULTS
    /\ runPc' = [runPc EXCEPT ![r] = "completed"]
    /\ runData' = [runData EXCEPT ![r] = NoData]
    /\ runTs' = [runTs EXCEPT ![r] = TRUE]
    /\ UNCHANGED <<videoInfo, range, includeTimestamps, processingError, delivered>>
    /\ PanelFollows

\* the retry button of the processing view
Retry ==
    /\ sent' = NoRequest
    /\ step = STEP_PROCESSING
    /\ processingError # NoError
    /\ step' = STEP_TIME
    /\ UNCHANGED <<videoInfo, range, includeTimestamps, results,
                   resultsFrom, pipelineVars, panelVars>>

\* handleReset: the header title, and onReset of the panel
HandleReset ==
    /\ sent' = NoRequest
    /\ step' = STEP_URL
    /\ videoInfo' = NoInfo
    /\ results' = NoResults
    /\ resultsFrom' = NoWriter
    /\ UNCHANGED <<range, includeTimestamps, pipelineVars>>
    /\ PanelFollows

\* loadHistoryItem(item), called by HistoryPanel.handleSelect
LoadHistoryItem ==
    /\ sent' = NoRequest
    /\ \E item \in HistoryItems :
         LET hasSegments == Len(item.arabic_segments) > 0 IN
         /\ videoInfo' = [duration |-> item.end_seconds]
         /\ range' = [start |-> item.start_seconds, end |-> item.end_seconds]
         /\ includeTimestamps' = hasSegments
         /\ results' = [arabicSegments |-> item.arabic_segments,
                        arabicText |-> item.arabic_text,
                        frenchSegments |-> item.french_segments,
                        frenchText |-> item.french_text,
                        articleMarkdown |-> item.article_markdown,
                        analysisId |-> item.id,
                        includeTimestamps |-> hasSegments,
                        costs |-> item.costs]
    /\ resultsFrom' = [kind |-> "history", run |-> 0]
    /\ step' = STEP_RESULTS
    /\ UNCHANGED <<pipelineVars>>
    /\ PanelFollows

\* the steps of App once a source is loaded
AppSteps ==
    \/ Back \/ ToggleTimestamps
    \/ StartRun \/ Retry \/ HandleReset
    \/ LoadHistoryItem
    \/ \E r \in Runs : \/ TranscribeFail(r) \/ TranscribeOk(r)
                       \/ ParseFail(r) \/ ParseOk(r)
                       \/ TranslateFail(r) \/ TranslateOk(r)

AppNext == SourceLoaded \/ AppSteps

\* a source long enough for the proposed window
LongVideo == [duration |-> 2000]

\* the pipeline on sources whose proposed window can be transcribed as it is
SpecApp == Init /\ [][OnSuccess(LongVideo) \/ AppSteps]_vars

\* ---------------------------------------------------- ResultsPanel actions
appFrame == <<step, videoInfo, range, includeTimestamps, results, resultsFrom, pipelineVars>>

\* bodies of a successful PATCH /api/history/{id} response; a field the
\* service left out is undefined (present = FALSE)
SaveResponses ==
    { [french_segments |-> [present |-> FALSE, value |-> <<>>], french_text |-> NoText],
      [french_segments |-> [present |-> TRUE, value |-> <<>>], french_text |-> ""],
      [french_segments |-> [present |-> TRUE, value |-> SegsOf("c")], french_text |-> "c"] }

\* an enterEdit whose button would be rendered whatever the other lane does
EnterEdit_NoExclusion(lang) ==
    /\ sent' = NoRequest
    /\ Mounted
    /\ editMode # lang
    /\ Truthy(results.analysisId)
    /\ cancelSnapshot' = LaneFields
    /\ atEnter' = LaneFields
    /\ editMode' = lang
    /\ saveStatus' = [saveStatus EXCEPT ![lang] = "idle"]
    /\ UNCHANGED <<arabicSegs, frenchSegs, arabicText, frenchText, saves, timers>>
    /\ UNCHANGED <<appFrame, articleVars, initId>>

\* enterEdit(lang); its button is rendered by EditControls only when this
\* lane is not being edited, results.analysisId is set and no other lane is
EnterEdit(lang) ==
    /\ sent' = NoRequest
    /\ Mounted
    /\ editMode # lang
    /\ Truthy(results.analysisId)
    /\ ~(editMode # NoLane /\ editMode # lang)
    /\ cancelSnapshot' = LaneFields
    /\ atEnter' = LaneFields
    /\ editMode' = lang
    /\ saveStatus' = [saveStatus EXCEPT ![lang] = "idle"]
    /\ UNCHANGED <<arabicSegs, frenchSegs, arabicText, frenchText, saves, timers>>
    /\ UNCHANGED <<appFrame, articleVars, initId>>

\* a map that would write the text into every row
WithText_EveryRow(segs, i, t) ==
    [j \in 1..Len(segs) |-> [segs[j] EXCEPT !.text = t]]

\* segs.map((s, j) => j === i ? { ...s, text: t } : s)
WithText(segs, i, t) ==
    [j \in 1..Len(segs) |-> IF j = i THEN [segs[j] EXCEPT !.text = t] ELSE segs[j]]

\* onChange of the textarea of segment i; the rows are those of arabicSegs
UpdateSegment(lang, i, t) ==
    /\ sent' = NoRequest
    /\ Mounted
    /\ results.includeTimestamps
    /\ editMode = lang
    /\ i \in 1..Len(arabicSegs)
    /\ IF lang = "arabic"
       THEN arabicSegs' = WithText(arabicSegs, i, t) /\ UNCHANGED frenchSegs
       ELSE frenchSegs' = WithText(frenchSegs, i, t) /\ UNCHANGED arabicSegs
    /\ UNCHANGED <<arabicText, frenchText, editMode, cancelSnapshot, saveStatus,
                   saves, timers, atEnter>>
    /\ UNCHANGED <<appFrame, articleVars, initId>>

\* onChange of the full-text textarea
UpdateText(lang, t) ==
    /\ sent' = NoRequest
    /\ Mounted
    /\ ~results.includeTimestamps
    /\ editMode = lang
    /\ IF lang = "arabic"
       THEN arabicText' = t /\ UNCHANGED frenchText
       ELSE frenchText' = t /\ UNCHANGED arabicText
    /\ UNCHANGED <<arabicSegs, frenchSegs, editMode, cancelSnapshot, saveStatus,
                   saves, timers, atEnter>>
    /\ UNCHANGED <<appFrame, articleVars, initId>>

\* a cancelEdit that would restore the source lane only
CancelEdit_ForgetsFrench ==
    /\ sent' = NoRequest
    /\ Mounted
    /\ editMode \in Lanes
    /\ IF cancelSnapshot # NoSnapshot
       THEN /\ arabicSegs' = cancelSnapshot.arabicSegs
            /\ arabicText' = cancelSnapshot.arabicText
       ELSE UNCHANGED <<arabicSegs, arabicText>>
    /\ UNCHANGED <<frenchSegs, frenchText>>
    /\ editMode' = NoLane
    /\ UNCHANGED <<cancelSnapshot, saveStatus, saves, timers, atEnter>>
    /\ UNCHANGED <<appFrame, articleVars, initId>>

\* cancelEdit(); its button is rendered for the lane being edited
CancelEdit ==
    /\ sent' = NoRequest
    /\ Mounted
    /\ editMode \in Lanes
    /\ IF cancelSnapshot # NoSnapshot
       THEN /\ arabicSegs' = cancelSnapshot.arabicSegs
            /\ frenchSegs' = cancelSnapshot.frenchSegs
            /\ arabicText' = cancelSnapshot.arabicText
            /\ frenchText' = cancelSnapshot.frenchText
       ELSE UNCHANGED <<arabicSegs, frenchSegs, arabicText, frenchText>>
    /\ editMode' = NoLane
    /\ UNCHANGED <<cancelSnapshot, saveStatus, saves, timers, atEnter>>
    /\ UNCHANGED <<appFrame, articleVars, initId>>

\* a request body that would carry the drafts of both lanes
SaveBody_BothLanes(lang) ==
    IF results.includeTimestamps
    THEN [arabic_segments |-> arabicSegs, french_segments |-> frenchSegs]
    ELSE [arabic_text |-> arabicText, french_text |-> frenchText]

\* the body of the PATCH request: one field, chosen by lane and representation
SaveBody(lang) ==
    IF results.includeTimestamps
    THEN IF lang = "arabic" THEN [arabic_segments |-> arabicSegs]
                            ELSE [french_segments |-> frenchSegs]
    ELSE IF lang = "arabic" THEN [arabic_text |-> arabicText]
                            ELSE [french_text |-> frenchText]

Outstanding == saves["arabic"] + saves["french"] + timers["arabic"] + timers["french"]

\* saveEdits(lang) up to its await; the button is disabled while 'saving'
SaveEdits(lang) ==
    /\ Mounted
    /\ editMode = lang
    /\ saveStatus[lang] # "saving"
    /\ Outstanding < MaxSaves
    /\ saveStatus' = [saveStatus EXCEPT ![lang] = "saving"]
    /\ saves' = [saves EXCEPT ![lang] = @ + 1]
    /\ sent' = [id |-> results.analysisId, body |-> SaveBody(lang)]
    /\ UNCHANGED <<arabicSegs, frenchSegs, arabicText, frenchText, editMode,
                   cancelSnapshot, timers, atEnter>>
    /\ UNCHANGED <<appFrame, articleVars, initId>>

\* a merge that would empty the target lane when the response has no cascade
SaveOk_ClearsTarget(lang, data) ==
    /\ sent' = NoRequest
    /\ saves[lang] > 0
    /\ IF lang = "arabic"
       THEN frenchSegs' = (IF data.french_segments.present
                           THEN data.french_segments.value ELSE <<>>)
       ELSE UNCHANGED frenchSegs
    /\ IF lang = "arabic"
       THEN frenchText' = (IF Truthy(data.french_text) THEN data.french_text ELSE "")
       ELSE UNCHANGED frenchText
    /\ saveStatus' = [saveStatus EXCEPT ![lang] = "saved"]
    /\ editMode' = NoLane
    /\ saves' = [saves EXCEPT ![lang] = @ - 1]
    /\ timers' = [timers EXCEPT ![lang] = @ + 1]
    /\ UNCHANGED <<arabicSegs, arabicText, cancelSnapshot, atEnter>>
    /\ UNCHANGED <<appFrame, articleVars, initId>>

\* a merge that would apply the cascade payload whichever lane was saved
SaveOk_CascadesAnyLane(lang, data) ==
    /\ sent' = NoRequest
    /\ saves[lang] > 0
    /\ IF data.french_segments.present
       THEN frenchSegs' = data.french_segments.value
       ELSE UNCHANGED frenchSegs
    /\ IF Truthy(data.french_text)
       THEN frenchText' = data.french_text
       ELSE UNCHANGED frenchText
    /\ saveStatus' = [saveStatus EXCEPT ![lang] = "saved"]
    /\ editMode' = NoLane
    /\ saves' = [saves EXCEPT ![lang] = @ - 1]
    /\ timers' = [timers EXCEPT ![lang] = @ + 1]
    /\ UNCHANGED <<arabicSegs, arabicText, cancelSnapshot, atEnter>>
    /\ UNCHANGED <<appFrame, articleVars, initId>>

\* the PATCH response is ok and parsed as data
SaveOk(lang, data) ==
    /\ sent' = NoRequest
    /\ saves[lang] > 0
    /\ IF lang = "arabic" /\ data.french_segments.present
       THEN frenchSegs' = data.french_segments.value
       ELSE UNCHANGED frenchSegs
    /\ IF lang = "arabic" /\ Truthy(data.french_text)
       THEN frenchText' = data.french_text
       ELSE UNCHANGED frenchText
    /\ saveStatus' = [saveStatus EXCEPT ![lang] = "saved"]
    /\ editMode' = NoLane
    /\ saves' = [saves EXCEPT ![lang] = @ - 1]
    /\ timers' = [timers EXCEPT ![lang] = @ + 1]
    /\ UNCHANGED <<arabicSegs, arabicText, cancelSnapshot, atEnter>>
    /\ UNCHANGED <<appFrame, articleVars, initId>>

\* a catch block that would also close the edit session
SaveFail_ClosesSession(lang) ==
    /\ sent' = NoRequest
    /\ saves[lang] > 0
    /\ saveStatus' = [saveStatus EXCEPT ![lang] = "error"]
    /\ editMode' = NoLane
    /\ saves' = [saves EXCEPT ![lang] = @ - 1]
    /\ UNCHANGED <<arabicSegs, frenchSegs, arabicText, frenchText,
                   cancelSnapshot, timers, atEnter>>
    /\ UNCHANGED <<appFrame, articleVars, initId>>

\* fetch rejects, the response is not ok, or its body cannot be parsed
SaveFail(lang) ==
    /\ sent' = NoRequest
    /\ saves[lang] > 0
    /\ saveStatus' = [saveStatus EXCEPT ![lang] = "error"]
    /\ saves' = [saves EXCEPT ![lang] = @ - 1]
    /\ UNCHANGED <<arabicSegs, frenchSegs, arabicText, frenchText, editMode,
                   cancelSnapshot, timers, atEnter>>
    /\ UNCHANGED <<appFrame, articleVars, initId>>

\* the setTimeout callback of a successful save
TimerFires(lang) ==
    /\ sent' = NoRequest
    /\ timers[lang] > 0
    /\ saveStatus' = [saveStatus EXCEPT ![lang] = "idle"]
    /\ timers' = [timers EXCEPT ![lang] = @ - 1]
    /\ UNCHANGED <<arabicSegs, frenchSegs, arabicText, frenchText, editMode,
                   cancelSnapshot, saves, atEnter>>
    /\ UNCHANGED <<appFrame, articleVars, initId>>

\* ------------------------------------------------------ article actions
\* x || 0 on a cost that may be absent
Num(x) == IF x = NoCost THEN 0 ELSE x

\* bodies of a successful /api/generate-article response
GenerateResponses ==
    [article_markdown : {"art", ""},
     costs : {NoCosts, [article_cost_usd |-> NoCost], [article_cost_usd |-> 1]}]

\* the generic message of handleGenerateArticle, without its accents
GenerateGeneric == "Echec de la generation"

RECURSIVE Join(_)
\* segs.map(s => s.text).join(' ')
Join(segs) ==
    IF Len(segs) = 0 THEN ""
    ELSE IF Len(segs) = 1 THEN segs[1].text
    ELSE segs[1].text \o " " \o Join(Tail(segs))

\* sourceText of handleGenerateArticle
SourceText == IF results.includeTimestamps THEN Join(arabicSegs) ELSE arabicText

\* handleGenerateArticle up to its await; the button is rendered while
\* articleMarkdown is falsy and is disabled while articleState is 'loading'
GenerateArticle ==
    /\ Mounted
    /\ ~Truthy(articleMarkdown)
    /\ articleState # "loading"
    /\ calls < MaxCalls
    /\ articleState' = "loading"
    /\ articleError' = ""
    /\ calls' = calls + 1
    /\ sent' = [id |-> results.analysisId,
                body |-> [arabic_text |-> SourceText, analysis_id |-> results.analysisId]]
    /\ UNCHANGED <<articleMarkdown, costs>>
    /\ UNCHANGED <<appFrame, editVars, initId>>

\* a merge that would replace the total by the article cost
MergeCosts_ReplacesTotal(prev, delta) ==
    IF prev = NoCosts THEN NoCosts
    ELSE [prev EXCEPT !.article_cost_usd = delta.article_cost_usd,
                      !.total_cost_usd = Num(delta.article_cost_usd)]

\* setCosts(prev => prev ? { ...prev, article_cost_usd, total_cost_usd } : null)
MergeCosts(prev, delta) ==
    IF prev = NoCosts THEN NoCosts
    ELSE [prev EXCEPT !.article_cost_usd = delta.article_cost_usd,
                      !.total_cost_usd = Num(prev.total_cost_usd)
                                           + Num(delta.article_cost_usd)]

\* the response is ok and parsed as data
GenerateOk(data) ==
    /\ sent' = NoRequest
    /\ Mounted
    /\ articleState = "loading"
    /\ articleMarkdown' = data.article_markdown
    /\ costs' = IF data.costs # NoCosts THEN MergeCosts(costs, data.costs) ELSE costs
    /\ articleState' = "idle"
    /\ UNCHANGED <<articleError, calls>>
    /\ UNCHANGED <<appFrame, editVars, initId>>

\* err.message after a failed generate-article call
GenerateFailureMessage(f) ==
    CASE f.kind = "network" -> NetworkErrorMessage
      [] f.kind = "http" -> OrElse(f.detail, GenerateGeneric)
      [] f.kind = "http_raw" -> GenerateGeneric
      [] OTHER -> JsonErrorMessage

\* a catch block that would also drop the cost record
GenerateFail_DropsCosts(f) ==
    /\ sent' = NoRequest
    /\ Mounted
    /\ articleState = "loading"
    /\ articleError' = GenerateFailureMessage(f)
    /\ articleState' = "error"
    /\ costs' = NoCosts
    /\ UNCHANGED <<articleMarkdown, calls>>
    /\ UNCHANGED <<appFrame, editVars, initId>>

\* fetch rejects, the response is not ok, or the body of an ok response
\* cannot be parsed
GenerateFail(f) ==
    /\ sent' = NoRequest
    /\ Mounted
    /\ articleState = "loading"
    /\ articleError' = GenerateFailureMessage(f)
    /\ articleState' = "error"
    /\ UNCHANGED <<articleMarkdown, costs, calls>>
    /\ UNCHANGED <<appFrame, editVars, initId>>

ArticleNext ==
    \/ GenerateArticle
    \/ \E data \in GenerateResponses : GenerateOk(data)
    \/ \E f \in Failures \cup {[kind |-> "body", detail |-> Undefined]} : GenerateFail(f)

PanelNext ==
    \/ CancelEdit
    \/ \E lang \in Lanes :
         \/ EnterEdit(lang) \/ SaveEdits(lang) \/ SaveFail(lang) \/ TimerFires(lang)
         \/ \E data \in SaveResponses : SaveOk(lang, data)
         \/ \E t \in Typed : UpdateText(lang, t)
         \/ \E i \in 1..MaxSegs, t \in Typed : UpdateSegment(lang, i, t)

Next == AppNext \/ RangeNext \/ PanelNext \/ ArticleNext

Spec == Init /\ [][Next]_vars

\* the panel on records loaded from the history: the record is opened from
\* another view, edited, and left through onReset
OpenFromHistory == ~Mounted /\ LoadHistoryItem

SpecPanel == Init /\ [][OpenFromHistory \/ HandleReset \/ PanelNext]_vars

\* the time-range step: the window is edited, the pipeline is started, a
\* failed run is retried
SpecRange ==
    Init /\ [][ \/ SourceLoaded \/ Back \/ HandleReset \/ LoadHistoryItem
                \/ RangeNext
                \/ StartRun \/ Retry
                \/ \E r \in Runs : TranscribeFail(r) ]_vars

\* an invocation started while no other is in flight
SingleRun == (\A r \in Runs : ~InFlight(r)) /\ StartRun

\* the article section on the results of completed runs and on records
\* loaded from the history
SpecArticle ==
    Init /\ [][ \/ OnSuccess(LongVideo) \/ SingleRun \/ HandleReset \/ OpenFromHistory
                \/ \E r \in Runs : TranscribeOk(r) \/ ParseOk(r) \/ TranslateOk(r)
                \/ ArticleNext ]_vars

\* the stage whose await an invocation is suspended in
StageOf(pc) ==
    CASE pc = "transcribe" -> Idx("extract")
      [] pc = "parse" -> Idx("whisper")
      [] OTHER -> Idx("translate")

\* ------------------------------------------------------- pipeline claims
\* C1: in every reachable state of the stage vector at most one stage has
\* status 'active'.
C1_AtMostOneActive == Cardinality(ActiveStages) <= 1

\* C2: a stage becomes active only when every earlier stage is done, and an
\* invocation issues the translate call only after its transcribe response
\* was received (it comes from the parse await) with the extract stage done.
C2_ForwardOrder ==
    [][ /\ \A i \in StageIdx :
             (processingSteps[i].status # "active" /\ processingSteps'[i].status = "active")
               => \A j \in 1..(i - 1) : processingSteps'[j].status = "done"
        /\ \A r \in Runs :
             (runPc[r] # "translate" /\ runPc'[r] = "translate")
               => (runPc[r] = "parse" /\ processingSteps'[Idx("extract")].status = "done")
      ]_vars

\* C3: when the await of stage k fails, every stage after k has status
\* 'pending', processingError is set, and the aborted invocation issues no
\* further call (its slot only ever starts a new invocation).
C3_AbortKeepsLaterPending ==
    [][ \A r \in Runs :
          /\ (InFlight(r) /\ runPc'[r] = "aborted")
               => /\ \A j \in StageIdx :
                       j > StageOf(runPc[r]) => processingSteps'[j].status = "pending"
                  /\ processingError' # NoError
          /\ runPc[r] = "aborted" => runPc'[r] \in {"aborted", "transcribe"}
      ]_vars

\* C4: a failed external call leaves its stage 'failed', so that the run is
\* aborted (processingError set) exactly when some stage has status 'failed'.
C4_AbortedIffFailed ==
    (processingError # NoError) <=> (\E i \in StageIdx : processingSteps[i].status = "failed")

\* C5: after any failed external call the message shown is the detail the
\* service supplied, and the generic message of that call otherwise.
C5_MessageIsDetailOrGeneric ==
    delivered # NoDelivery
      => processingError = OrElse(delivered.detail, GenericMessage[delivered.call])

\* C6 as stated: whenever processingError is non-null, results is null.
C6_AbortedImpliesNoResults == processingError # NoError => results = NoResults

\* C6 amended: whenever processingError is non-null, results is null, or was
\* loaded by loadHistoryItem, or was written by an invocation that completed;
\* nothing of an aborted invocation is ever in results.
C6_NoResultsOfAbortedRun ==
    processingError # NoError
      => \/ results = NoResults
         \/ resultsFrom.kind = "history"
         \/ resultsFrom.kind = "run" /\ runPc[resultsFrom.run] = "completed"

\* C6 witness: a translate call failed after the transcription had succeeded
\* (whisper stage done with its cost), and results is null.
C6_Witness ==
    /\ processingError # NoError
    /\ delivered.call = "translate"
    /\ processingSteps[Idx("whisper")].status = "done"
    /\ results = NoResults

\* C7: an invocation ends completed exactly when all stages are done, and no
\* state shows the results of a run while a stage is not done.
C7_CompletedIffAllDone ==
    [][ /\ \A r \in Runs :
             (InFlight(r) /\ runPc'[r] \in {"completed", "aborted"})
               => ((runPc'[r] = "completed") <=> AllDone')
        /\ (step' = STEP_RESULTS /\ resultsFrom'.kind = "run") => AllDone'
      ]_vars

\* ----------------------------------------------------- edit session claims
\* C8: while an edit session is open on one lane, entering edit on the other
\* lane is not possible: editMode only stays or returns to null, the cancel
\* snapshot is unchanged as long as the session stays open, and a step that
\* keeps the session open on its lane starts no request for the other lane.
C8_MutualExclusion ==
    [][ (editMode # NoLane)
          => /\ editMode' \in {editMode, NoLane}
             /\ (editMode' = editMode) => (cancelSnapshot' = cancelSnapshot)
             /\ (editMode' = editMode)
                  => (\A l \in Lanes \ {editMode} : saves'[l] <= saves[l])
      ]_vars

\* C8 witness: a session is open on the source lane, with an edited draft,
\* on a record whose identifier would let the target lane be edited.
C8_Witness ==
    /\ editMode = "arabic"
    /\ Truthy(results.analysisId)
    /\ LaneFields # cancelSnapshot

\* C9: every cancelEdit leaves the four lane fields (both segment lists with
\* each start and text, both full texts) equal to their values when enterEdit
\* ran, and editMode null.
C9_CancelExact ==
    [][ CancelEdit => (LaneFields' = atEnter /\ editMode' = NoLane) ]_vars

\* C9 witness: a session on the target lane whose draft differs from the
\* values at enterEdit in a segment text, so that cancelEdit has to restore.
C9_Witness ==
    /\ editMode = "french"
    /\ atEnter # NoSnapshot
    /\ frenchSegs # atEnter.frenchSegs
    /\ ENABLED CancelEdit

\* C10: a successful save of the source lane whose response carries a
\* target-lane payload leaves the target lane equal to that payload.
C10_CascadeEqualsPayload ==
    [][ \A data \in SaveResponses :
          SaveOk("arabic", data)
            => /\ data.french_segments.present => frenchSegs' = data.french_segments.value
               /\ data.french_text # NoText => frenchText' = data.french_text
      ]_vars

\* ------------------------------------------------------------- save claims
\* a response of a successful save that carries no cascaded translation
NoCascade == [french_segments |-> [present |-> FALSE, value |-> <<>>],
              french_text |-> NoText]

\* C11: when a save of the source lane succeeds and the response carries no
\* cascaded translation, the segments and the text of the target lane are
\* unchanged, the status of the source lane is 'saved' and the session is closed.
C11_CascadeAbsent ==
    [][ SaveOk("arabic", NoCascade)
          => /\ frenchSegs' = frenchSegs
             /\ frenchText' = frenchText
             /\ saveStatus'["arabic"] = "saved"
             /\ editMode' = NoLane
      ]_vars

\* C11 witness: the source lane of a segmented record was edited and saved
\* (status 'saved', session closed, the edit kept) and the target lane is
\* what it was when the session was entered.
C11_Witness ==
    /\ saveStatus["arabic"] = "saved"
    /\ editMode = NoLane
    /\ atEnter # NoSnapshot
    /\ arabicSegs # atEnter.arabicSegs
    /\ frenchSegs = atEnter.frenchSegs
    /\ frenchSegs # <<>>
    /\ frenchText = atEnter.frenchText

C13_SavingSavedIdle ==
    [][ \A l \in Lanes :
          /\ (saveStatus[l] = "saving") => (saveStatus'[l] \in {"saving", "saved", "error"})
          /\ (saveStatus[l] # "saved" /\ saveStatus'[l] = "saved")
               => (saveStatus[l] = "saving" /\ editMode' = NoLane)
          /\ (saveStatus[l] = "saved" /\ saveStatus'[l] # "saved")
               => (saveStatus'[l] = "idle" /\ TimerFires(l) /\ timers[l] = 1)
      ]_vars

\* C14: saveEdits of the target lane, up to and including its response,
\* changes none of the four lane fields; saveEdits of the source lane leaves
\* the source lane unchanged and changes the target lane only to the value
\* its response carries. (Every step of saveEdits changes saves.)
C14_OtherLaneOnlyByCascade ==
    [][ (saves' # saves)
          => /\ \A lang \in Lanes :
                  (SaveEdits(lang) \/ SaveFail(lang)) => (LaneFields' = LaneFields)
             /\ \A data \in SaveResponses :
                  /\ SaveOk("french", data) => (LaneFields' = LaneFields)
                  /\ SaveOk("arabic", data)
                       => /\ arabicSegs' = arabicSegs
                          /\ arabicText' = arabicText
                          /\ (frenchSegs' # frenchSegs)
                               => (data.french_segments.present
                                   /\ frenchSegs' = data.french_segments.value)
                          /\ (frenchText' # frenchText)
                               => (frenchText' = data.french_text)
      ]_vars

\* C14 witness: the target lane of a segmented record was edited and saved
\* (its edit is kept, its status is 'saved') and the source lane is the
\* record's.
C14_Witness ==
    /\ saveStatus["french"] = "saved"
    /\ editMode = NoLane
    /\ atEnter # NoSnapshot
    /\ frenchSegs # atEnter.frenchSegs
    /\ frenchSegs # SegsOf("c")
    /\ frenchSegs # <<>>
    /\ arabicSegs = atEnter.arabicSegs
    /\ arabicSegs # <<>>

\* the name of the one field of a request body
FieldName ==
    [arabic |-> [segments |-> "arabic_segments", text |-> "arabic_text"],
     french |-> [segments |-> "french_segments", text |-> "french_text"]]

\* C15: the request of saveEdits(lane) addresses results.analysisId and its
\* body has exactly one field, the field of that lane in the representation
\* of the result, whose value is the current draft of that lane.
C15_OneLaneBody ==
    [][ \A lang \in Lanes :
          SaveEdits(lang)
            => /\ sent'.id = results.analysisId
               /\ IF results.includeTimestamps
                  THEN /\ DOMAIN sent'.body = {FieldName[lang].segments}
                       /\ sent'.body[FieldName[lang].segments]
                            = (IF lang = "arabic" THEN arabicSegs ELSE frenchSegs)
                  ELSE /\ DOMAIN sent'.body = {FieldName[lang].text}
                       /\ sent'.body[FieldName[lang].text]
                            = (IF lang = "arabic" THEN arabicText ELSE frenchText)
      ]_vars

\* C15 witness: the request just issued carries the edited target-lane
\* segments of record h1.
C15_Witness ==
    /\ sent # NoRequest
    /\ sent.id = "h1"
    /\ DOMAIN sent.body = {"french_segments"}
    /\ sent.body.french_segments = frenchSegs
    /\ frenchSegs # cancelSnapshot.frenchSegs

\* C16: cancelEdit takes effect only when no save request of the open
\* session is in flight.
C16_NoCancelWhileSaving ==
    [][ CancelEdit => ~(saveStatus[editMode] = "saving" /\ saves[editMode] > 0) ]_vars

\* ----------------------------------------------------------- cost claims
\* the total shown by CostBreakdown; nothing is shown without a cost record
Total == IF costs = NoCosts THEN NoCost ELSE costs.total_cost_usd

\* the article cost a generate-article response carries
Delta(data) == IF data.costs = NoCosts THEN NoCost ELSE data.costs.article_cost_usd

\* C17 as stated: every successful generate-article call leaves
\* total' = total + delta, an absent total and an absent delta counting as 0.
C17_TotalPlusDelta ==
    [][ \A data \in GenerateResponses :
          GenerateOk(data) => (Num(Total') = Num(Total) + Num(Delta(data)))
      ]_vars

\* C17 amended: when the panel holds a cost record, every successful
\* generate-article call leaves total' = total + delta, an absent total field
\* and an absent delta counting as 0; when it holds no cost record, it still
\* holds none after the call.
C17_TotalPlusDeltaOnRecord ==
    [][ \A data \in GenerateResponses :
          GenerateOk(data)
            => IF costs = NoCosts THEN costs' = NoCosts
               ELSE Num(costs'.total_cost_usd)
                      = Num(costs.total_cost_usd) + Num(Delta(data))
      ]_vars

\* C17 witness: an article was generated on a record whose total was 3 and
\* the response carried an article cost of 1.
C17_Witness ==
    /\ Truthy(articleMarkdown)
    /\ calls > 0
    /\ costs # NoCosts
    /\ costs.article_cost_usd = 1
    /\ costs.total_cost_usd = SomeCosts.total_cost_usd + 1

\* C18: whenever the panel holds a cost record, its total is the sum of its
\* transcription, translation and article costs, an absent cost counting as 0.
C18_TotalIsSum ==
    costs # NoCosts
      => Num(costs.total_cost_usd)
           = Num(costs.whisper_cost_usd) + Num(costs.translation_cost_usd)
               + Num(costs.article_cost_usd)

\* C19: handleGenerateArticle is triggered only in states where
\* results.analysisId is set.
C19_GenerateNeedsId ==
    [][ GenerateArticle => Truthy(results.analysisId) ]_vars

\* ------------------------------------------------------ time-range claims
\* C20: every start of the pipeline happens with a window such that
\* 0 < end - start <= 1800 seconds, in the App state and in the request.
C20_WindowWithinLimit ==
    [][ StartRun
          => /\ 0 < range.end - range.start
             /\ range.end - range.start <= 30 * 60
             /\ 0 < sent'.body.end_seconds - sent'.body.start_seconds
             /\ sent'.body.end_seconds - sent'.body.start_seconds <= 30 * 60
      ]_vars

\* C20 witness: a run was started on a window of exactly 1800 seconds that
\* the user had to select (start 100, end 1900).
C20_Witness ==
    /\ step = STEP_PROCESSING
    /\ \E r \in Runs : runPc[r] = "transcribe"
    /\ range.start > 0
    /\ range.end - range.start = MAX_SEGMENT

\* ------------------------------------------------------ invocation claims
\* C21: at most one invocation of handleTranscribeAndTranslate is in flight
\* (awaiting an external call) at any time.
C21_SingleFlight == Cardinality({r \in Runs : InFlight(r)}) <= 1

\* C22: the status of a stage changes to 'done' or 'failed' only from
\* 'active', and a response marks done only the stage that is active: no
\* step marks a pending stage or an already finished stage.
C22_DoneOnlyFromActive ==
    [][ /\ \A i \in StageIdx :
             (processingSteps'[i].status \in {"done", "failed"}
                /\ processingSteps'[i].status # processingSteps[i].status)
               => processingSteps[i].status = "active"
        /\ \A r \in Runs :
             (TranscribeOk(r) \/ ParseOk(r) \/ TranslateOk(r))
               => processingSteps[StageOf(runPc[r])].status = "active"
      ]_vars

\* C23: in every reachable state a stage has a duration or a cost only if
\* its status is 'done'.
C23_DurationCostOnlyWhenDone ==
    \A i \in StageIdx :
        (processingSteps[i].duration # NoDuration \/ processingSteps[i].cost # NoCost)
          => processingSteps[i].status = "done"

\* C24: a step in which an invocation begins leaves every stage without
\* duration and cost, every stage but the first pending (the first is the
\* one its call is made for), processingError and results null, and the call
\* it issues is the transcribe request; an aborted invocation issues no other
\* call; the retry button only returns to the selection step.
C24_RunStartsAfresh ==
    [][ /\ \A r \in Runs :
             /\ (runPc'[r] = "transcribe" /\ runPc[r] # "transcribe")
                  => /\ \A i \in StageIdx :
                          /\ processingSteps'[i].duration = NoDuration
                          /\ processingSteps'[i].cost = NoCost
                          /\ i # Idx("extract") => processingSteps'[i].status = "pending"
                     /\ processingSteps'[Idx("extract")].status = "active"
                     /\ processingError' = NoError
                     /\ results' = NoResults
                     /\ sent' = [id |-> NoId, body |-> TranscribeBody]
                     /\ step = STEP_TIME
             /\ (runPc[r] = "aborted") => (runPc'[r] \in {"aborted", "transcribe"})
        /\ Retry => (step' = STEP_TIME /\ runPc' = runPc
                       /\ processingSteps' = processingSteps)
      ]_vars

\* C24 witness: a run was aborted at its translate call after two stages
\* were done, the retry button was used, and the Transcribe button is
\* enabled on the selection step.
C24_Witness ==
    /\ step = STEP_TIME
    /\ processingError # NoError
    /\ \E r \in Runs : runPc[r] = "aborted"
    /\ \A r \in Runs : ~InFlight(r)
    /\ processingSteps[Idx("whisper")].status = "done"
    /\ processingSteps[Idx("translate")].status = "active"
    /\ ENABLED StartRun

\* ------------------------------------------------------------ draft claims
\* C25: editing segment i of a lane changes only the text of segment i of
\* that lane: the number of segments, every start offset, the other
\* segments, the other lane, both full texts, the cancel snapshot, editMode
\* and the save statuses are unchanged; editing the full text of a lane
\* changes only that text.
C25_UpdateDraftFrame ==
    [][ \A lang \in Lanes, t \in Typed :
          /\ \A i \in 1..MaxSegs :
               UpdateSegment(lang, i, t)
                 => LET old == IF lang = "arabic" THEN arabicSegs ELSE frenchSegs
                        new == IF lang = "arabic" THEN arabicSegs' ELSE frenchSegs'
                    IN  /\ Len(new) = Len(old)
                        /\ \A j \in 1..Len(old) :
                             /\ new[j].start = old[j].start
                             /\ j # i => new[j] = old[j]
                        /\ i <= Len(old) => new[i].text = t
                        /\ IF lang = "arabic" THEN frenchSegs' = frenchSegs
                                              ELSE arabicSegs' = arabicSegs
                        /\ arabicText' = arabicText /\ frenchText' = frenchText
                        /\ cancelSnapshot' = cancelSnapshot
                        /\ editMode' = editMode
                        /\ saveStatus' = saveStatus
          /\ UpdateText(lang, t)
               => /\ IF lang = "arabic"
                     THEN arabicText' = t /\ frenchText' = frenchText
                     ELSE frenchText' = t /\ arabicText' = arabicText
                  /\ arabicSegs' = arabicSegs /\ frenchSegs' = frenchSegs
                  /\ cancelSnapshot' = cancelSnapshot
                  /\ editMode' = editMode
                  /\ saveStatus' = saveStatus
      ]_vars

\* C25 witness: in a session on the target lane of a segmented record one
\* segment carries the typed text and another one still carries its own;
\* the snapshot holds the texts of enterEdit.
C25_Witness ==
    /\ editMode = "french"
    /\ Len(frenchSegs) = MaxSegs
    /\ frenchSegs[1].text \in Typed
    /\ frenchSegs[2].text \notin Typed
    /\ cancelSnapshot # NoSnapshot
    /\ cancelSnapshot.frenchSegs # frenchSegs

\* C26: at most one save request per lane is in flight, and while one is in
\* flight the status of its lane is 'saving'.
C26_OneSavePerLane ==
    \A l \in Lanes :
        /\ saves[l] <= 1
        /\ saves[l] > 0 => saveStatus[l] = "saving"

\* C28: when the response of a save arrives while a session is open on the
\* other lane, editMode stays on the open lane and the draft of that lane and
\* the cancel snapshot are unchanged.
C28_SaveClosesOwnSessionOnly ==
    [][ \A lang \in Lanes, data \in SaveResponses :
          (SaveOk(lang, data) /\ editMode \in (Lanes \ {lang}))
            => /\ editMode' = editMode
               /\ cancelSnapshot' = cancelSnapshot
               /\ IF editMode = "arabic"
                  THEN arabicSegs' = arabicSegs /\ arabicText' = arabicText
                  ELSE frenchSegs' = frenchSegs /\ frenchText' = frenchText
      ]_vars

\* ----------------------------------------------------------- record claims
\* C27: the lane texts of the mounted panel belong to the record that
\* results.analysisId identifies: the panel was initialised from the record
\* that results names now, and a request it has just sent addresses the
\* record its texts were initialised from.
C27_TextsOfAddressedRecord ==
    Mounted
      => /\ initId = results.analysisId
         /\ sent # NoRequest => sent.id = initId

\* the panel stays mounted while records are loaded from the history over
\* it; drafts are edited and requests are sent, their responses are left out
SpecHistory ==
    Init /\ [][ \/ LoadHistoryItem \/ HandleReset
                \/ CancelEdit \/ GenerateArticle
                \/ \E lang \in Lanes :
                     \/ EnterEdit(lang) \/ SaveEdits(lang)
                     \/ \E t \in Typed : UpdateText(lang, t)
                     \/ \E i \in 1..MaxSegs, t \in Typed : UpdateSegment(lang, i, t)
              ]_vars

\* ---------------------------------------------------------- article claims
\* the article section next to an edit session, on records loaded from the
\* history
SpecArticleEdit ==
    Init /\ [][ \/ OpenFromHistory \/ HandleReset
                \/ CancelEdit
                \/ \E lang \in Lanes :
                     \/ EnterEdit(lang)
                     \/ \E t \in Typed : UpdateText(lang, t)
                     \/ \E i \in 1..MaxSegs, t \in Typed : UpdateSegment(lang, i, t)
                \/ ArticleNext ]_vars

\* C29: when a generate-article call fails, articleState becomes 'error' and
\* articleError a non-empty message (the detail of the service when it gave
\* one); articleMarkdown, the cost record, the four lane fields and the edit
\* session are unchanged. A call is started only when articleState is not
\* 'loading', and no step taken while it is 'loading' issues a call.
C29_FailedGenerateKeepsState ==
    [][ /\ \A f \in Failures \cup {[kind |-> "body", detail |-> Undefined]} :
             GenerateFail(f)
               => /\ articleState' = "error"
                  /\ articleError' # ""
                  /\ (f.kind = "http" /\ Truthy(f.detail)) => articleError' = f.detail
                  /\ articleMarkdown' = articleMarkdown
                  /\ costs' = costs
                  /\ LaneFields' = LaneFields
                  /\ editMode' = editMode
                  /\ cancelSnapshot' = cancelSnapshot
                  /\ saveStatus' = saveStatus
        /\ GenerateArticle => articleState # "loading"
        /\ articleState = "loading" => calls' <= calls
      ]_vars

\* C29 witness: a call failed with the detail of the service while a session
\* with an edited draft is open on the source lane of a record that has a
\* cost record and no article.
C29_Witness ==
    /\ articleState = "error"
    /\ articleError = "quota exceeded"
    /\ ~Truthy(articleMarkdown)
    /\ costs = SomeCosts
    /\ editMode = "arabic"
    /\ cancelSnapshot # NoSnapshot
    /\ arabicSegs # cancelSnapshot.arabicSegs

\* C30: on the selection step the window satisfies
\* 0 <= start <= end <= duration, with start < end whenever the Transcribe
\* button is enabled.
C30_WindowWithinVideo ==
    (step = STEP_TIME /\ videoInfo # NoInfo)
      => /\ 0 <= range.start
         /\ range.start <= range.end
         /\ range.end <= videoInfo.duration
         /\ CanTranscribe => range.start < range.end

====
